---- MODULE Spec2Model ----
(***************************************************************************)
(* Model of the llama.cpp backend supervisor of                            *)
(* src/llama_python_server/main.py: the launcher start_llama_server, the   *)
(* crash monitor monitor_llama_process, the request handler completions    *)
(* and the lifespan start-up / shutdown, as threads sharing process_lock   *)
(* and the module globals.                                                 *)
(***************************************************************************)
EXTENDS Integers, Sequences, FiniteSets, TLC

\* ------------------------------------------------------------------ bounds
NumPids == 2            \* process slots the operating system hands out
MaxBusyPolls == 31      \* longest run of polls that find the GPU busy
MaxGateTimeout == 4     \* longest timeout of a gate called on its own
MaxGateInterval == 3    \* longest poll_interval of a gate called on its own
MaxGateBusy == 5        \* longest run of busy polls of a gate called on its own

\* ------------------------------------------------------- program constants
GpuGateTimeout == 30    \* _wait_for_gpu_free(timeout=30)
GpuPollInterval == 1    \* poll_interval default
ReadyPolls == 12        \* for _ in range(12)
MaxFailCount == 10      \* min(restart_fail_count + 1, 10)
MaxBackoff == 60        \* min(2 ** restart_fail_count, 60)

QWEN_CONFIG == "../llama_config.json"
MISTRAL_CONFIG == "../mistral_config.json"
Configs == {QWEN_CONFIG, MISTRAL_CONFIG}

None == "None"          \* Python None for string-valued globals
NoProc == 0             \* llama_process = None
Unbound == -1           \* a local variable that was never assigned
NoThread == "nobody"    \* process_lock not held

Pids == 1..NumPids
Reqs == {"r1", "r2"}     \* request handler threads of the worker pool
Monitor == "monitor"
Main == "main"
Threads == Reqs \cup {Monitor, Main}

\* the fallback variants named by the design (section 4.3), in declared order
FallbackVariants == <<"reduced_ctx", "no_flash_attn", "alt_cache_quant", "reduced_gpu_layers">>

GpuLayersMsg == "[ERROR] Refusing to start: n-gpu-layers must be > 0 for GPU mode."
StderrTail == "stderr_tail"

VARIABLES
    pc,                 \* position of every thread
    process_lock,       \* holder of the threading.Lock
    llama_process,      \* global process handle (pid or NoProc)
    alive,              \* backend processes that have not exited
    current_model,      \* global current_model
    last_used_config,   \* global last_used_config
    last_start_error,   \* global last_start_error
    error_log,          \* content of logs/last_start_error.log
    restart_fail_count, \* global restart_fail_count
    backoff,            \* local variable backoff of monitor_llama_process
    cfgFiles,           \* content of the two configuration files
    loc,                \* locals of the start_llama_server call of a thread
    req,                \* the request a handler thread is serving
    resp,               \* the answer of the handler thread
    stderr_log,         \* whether logs/llama_stderr.log exists
    detected,           \* crashes the monitor detected since the last successful start
    gate                \* a call of _wait_for_gpu_free on its own: arguments and outcome

vars == <<pc, process_lock, llama_process, alive, current_model, last_used_config,
          last_start_error, error_log, restart_fail_count, backoff, cfgFiles, gate,
          loc, req, resp, stderr_log, detected>>

\* ------------------------------------------------------------ pure helpers
Min(a, b) == IF a < b THEN a ELSE b

RECURSIVE Pow2(_)
Pow2(n) == IF n = 0 THEN 1 ELSE 2 * Pow2(n - 1)

\* config.get('gpuLayers', 0)
GpuLayersOf(config) == IF "gpuLayers" \in DOMAIN config THEN config.gpuLayers ELSE 0

\* load_config(config_path)
load_config(config_path) == cfgFiles[config_path]

\* str.lower() on the model names a request can carry
Lower(s) ==
    CASE s = "Mistral" -> "mistral"
      [] OTHER -> s

\* model_map.get((req.model or '').lower(), QWEN_CONFIG)
model_map(name) ==
    CASE name = "mistral" -> MISTRAL_CONFIG
      [] name \in {"qwen", "qwen2.5", "qwen2.5-coder"} -> QWEN_CONFIG
      [] OTHER -> QWEN_CONFIG

TargetConfig(model) == model_map(Lower(IF model = None THEN "" ELSE model))

\* llama_process and llama_process.poll() is None
ProcessRunning == llama_process # NoProc /\ llama_process \in alive

\* the pid subprocess.Popen returns: a slot no live or referenced process owns
FreePids == Pids \ (alive \cup {llama_process} \cup {loc[t].proc : t \in DOMAIN loc})
NewPid == CHOOSE p \in FreePids : \A q \in FreePids : p <= q

\* restart_fail_count = min(restart_fail_count + 1, 10)
BumpFailCount(n) == Min(n + 1, MaxFailCount)
\* backoff = min(2 ** restart_fail_count, 60)
BackoffOf(n) == Min(Pow2(n), MaxBackoff)

\* ------------------------------------------------------------ initial state
QwenPath == "models/qwen.gguf"
MistralPath == "models/mistral.gguf"

\* a configuration file with or without the gpuLayers key
ConfigFilesFor(path) ==
    {[modelPath |-> path]} \cup {[modelPath |-> path, gpuLayers |-> g] : g \in {0, 35}}

\* the deployments considered: the primary configuration is valid, the
\* alternate one is valid, has gpuLayers 0 or lacks the key
Deployments ==
    {f \in [Configs -> ConfigFilesFor(QwenPath) \cup ConfigFilesFor(MistralPath)] :
        /\ f[QWEN_CONFIG].modelPath = QwenPath
        /\ f[MISTRAL_CONFIG].modelPath = MistralPath
        /\ GpuLayersOf(f[QWEN_CONFIG]) > 0}

\* what the readiness loop leaves behind: the local ready, the number of
\* health requests it made, whether it broke off at an exited process, and the
\* answer to its last health request
NoPolling == [ready |-> FALSE, polls |-> 0, seen_exit |-> FALSE, last |-> "none"]

\* locals of one call of start_llama_server; ev, logs, all_busy and prev record
\* what the call did and met: its process events in order, whether it opened
\* the log files, whether every poll of the gate found the GPU busy, and the
\* model of the backend it stopped (None: no backend was running); tried lists
\* the fallback variants the call has launched, calls counts its calls of the
\* fallback chain, chain holds the arguments of that call and ok its result;
\* polling is what the readiness loop of the primary launch left behind
NoLoc == [cfg |-> None, override |-> None, config |-> [modelPath |-> None],
          gpu_free |-> TRUE, all_busy |-> FALSE, variant |-> 0,
          proc |-> NoProc, ev |-> <<>>, logs |-> FALSE, result |-> FALSE,
          prev |-> None, tried |-> <<>>, calls |-> 0,
          chain |-> [config_path |-> None, model_override |-> None], ok |-> FALSE,
          polling |-> NoPolling]

\* the request of a handler thread; switch records the outcome of the model
\* comparison ("none" before it, then "equal" or "switch") and, once
\* start_llama_server has returned, its result ok ("started" or "failed")
\* posted: the POST requests the handler has sent to the backend
NoReq == [path |-> None, model |-> None, target_config |-> None, target_model |-> None,
          switch |-> "none", posted |-> <<>>]

\* the JSON body "null" (a handler that returns None)
Null == <<>>

\* no answer yet
NoResp == [code |-> 0, body |-> Null]

\* raise HTTPException(status_code=503, detail={'error': 'model_start_failed', ...})
ModelStartFailed(model) ==
    [code |-> 503,
     body |-> [error |-> "model_start_failed", model |-> model,
               hint |-> "see /last_start_error and logs/last_start_error.log"]]

\* raise HTTPException(status_code=503, detail={'error': 'server_unavailable', ...})
ServerUnavailable ==
    [code |-> 503,
     body |-> [error |-> "server_unavailable",
               hint |-> "llama-server not running; check /last_start_error"]]

\* the model names a request carries (None: the field is absent)
ReqModels == {"Mistral", None}

\* no call of _wait_for_gpu_free on its own
NoGate == [state |-> "none", timeout |-> 0, poll_interval |-> 0, busyPolls |-> 0,
           quiet |-> "no_rows", run |-> [result |-> FALSE, polls |-> 0, elapsed |-> 0]]

\* the supervisor after the module is loaded
SupervisorInit ==
    /\ pc = [t \in Threads |-> IF t = Main THEN "lifespan_start"
                               ELSE IF t = Monitor THEN "not_started" ELSE "idle"]
    /\ process_lock = NoThread
    /\ llama_process = NoProc
    /\ alive = {}
    /\ current_model = None
    /\ last_used_config = None
    /\ last_start_error = None
    /\ error_log = None
    /\ restart_fail_count = 0
    /\ backoff = Unbound
    /\ cfgFiles \in Deployments
    /\ loc = [t \in Threads |-> NoLoc]
    /\ req = [r \in Reqs |-> NoReq]
    /\ resp = [r \in Reqs |-> NoResp]
    /\ stderr_log \in BOOLEAN
    /\ detected = 0

Init ==
    /\ SupervisorInit
    /\ gate = NoGate

\* ------------------------------------------------------ start_llama_server
\* _read_stderr_tail()
_read_stderr_tail == IF stderr_log THEN StderrTail ELSE "(no stderr log yet)"

\* _write_last_error_log that leaves the file as it was
_write_last_error_logKeepsOld(text) == UNCHANGED error_log

\* _write_last_error_log(text): open(log_path, 'w') and write the text; the
\* directory logs is made when the module is loaded and the write is taken to
\* succeed
_write_last_error_log(text) == error_log' = text

\* the diagnostics a failed start leaves in last_start_error
StartDiagnostics == {StderrTail, "(no stderr log yet)", GpuLayersMsg}

\* a caller reaches the call start_llama_server(config_path)
CallStart(t, config_path) ==
    /\ pc' = [pc EXCEPT ![t] = "start_lock"]
    /\ loc' = [loc EXCEPT ![t] = [NoLoc EXCEPT !.cfg = IF config_path = None THEN QWEN_CONFIG
                                                        ELSE config_path]]

\* the call reaches "return <result>", still inside "with process_lock"
ReturnFrom(t, result, newloc) ==
    /\ pc' = [pc EXCEPT ![t] = "returning"]
    /\ loc' = [loc EXCEPT ![t] = [newloc EXCEPT !.result = result]]
    /\ UNCHANGED process_lock

\* StartAcquire without the wait for the lock (a launch that does not take
\* process_lock)
StartAcquireNoWait(t) ==
    /\ pc[t] = "start_lock"
    /\ process_lock' = t
    /\ pc' = [pc EXCEPT ![t] = "stop_old"]
    /\ loc' = [loc EXCEPT ![t].config =
                 IF loc[t].override = None THEN load_config(loc[t].cfg)
                 ELSE [load_config(loc[t].cfg) EXCEPT !.modelPath = loc[t].override]]
    /\ UNCHANGED <<llama_process, alive, current_model, last_used_config, last_start_error,
                   error_log, restart_fail_count, backoff, cfgFiles, gate, req, resp, stderr_log,
                   detected>>

\* with process_lock: (blocks until the lock is free), then load the config
StartAcquire(t) ==
    /\ pc[t] = "start_lock"
    /\ process_lock = NoThread
    /\ process_lock' = t
    /\ pc' = [pc EXCEPT ![t] = "stop_old"]
    /\ loc' = [loc EXCEPT ![t].config =
                 IF loc[t].override = None THEN load_config(loc[t].cfg)
                 ELSE [load_config(loc[t].cfg) EXCEPT !.modelPath = loc[t].override]]
    /\ UNCHANGED <<llama_process, alive, current_model, last_used_config, last_start_error,
                   error_log, restart_fail_count, backoff, cfgFiles, gate, req, resp, stderr_log, detected>>

\* StartStopOld that forgets the active model when it stops the backend
StartStopOldClearsModel(t) ==
    /\ pc[t] = "stop_old"
    /\ IF ProcessRunning
       THEN /\ alive' = alive \ {llama_process}
            /\ loc' = [loc EXCEPT ![t].ev = Append(@, "stop"), ![t].prev = current_model]
            /\ current_model' = None
            /\ last_used_config' = None
       ELSE UNCHANGED <<alive, loc, current_model, last_used_config>>
    /\ pc' = [pc EXCEPT ![t] = "gate"]
    /\ UNCHANGED <<process_lock, llama_process,
                   last_start_error, error_log, restart_fail_count, backoff, cfgFiles, gate,
                   req, resp, stderr_log, detected>>

\* StartStopOld without the terminate / kill of the running backend
StartStopOldNoStop(t) ==
    /\ pc[t] = "stop_old"
    /\ pc' = [pc EXCEPT ![t] = "gate"]
    /\ UNCHANGED <<process_lock, llama_process, alive, current_model, last_used_config,
                   last_start_error, error_log, restart_fail_count, backoff, cfgFiles, gate,
                   loc, req, resp, stderr_log, detected>>

\* if llama_process and llama_process.poll() is None: terminate(), then
\* wait(timeout=15) and, when the wait times out, kill()
StartStopOld(t) ==
    /\ pc[t] = "stop_old"
    /\ IF ProcessRunning
       THEN /\ alive' = alive \ {llama_process}
            /\ loc' = [loc EXCEPT ![t].ev = Append(@, "stop"), ![t].prev = current_model]
       ELSE UNCHANGED <<alive, loc>>
    /\ pc' = [pc EXCEPT ![t] = "gate"]
    /\ UNCHANGED <<process_lock, llama_process, current_model, last_used_config,
                   last_start_error, error_log, restart_fail_count, backoff, cfgFiles, gate,
                   req, resp, stderr_log, detected>>

\* what one run of "nvidia-smi --query-compute-apps=pid,process_name,used_gpu_memory"
\* can come to: the program is missing, the run fails (non-zero exit, time
\* out), it prints nothing, it prints rows that do not parse, it prints rows
SmiOutcomes == {"not_installed", "failed", "no_rows", "bad_rows", "rows"}

\* the outcomes that do not show a GPU compute process
QuietOutcomes == SmiOutcomes \ {"rows"}

\* the row of a GPU compute process as _gpu_processes returns it
GpuRow == [pid |-> 4242, name |-> "llama-server", mem |-> 6000]

\* _gpu_processes that takes a failed query for a busy GPU
_gpu_processesFailClosed(outcome) ==
    IF outcome \in {"rows", "not_installed", "failed"} THEN <<GpuRow>> ELSE <<>>

\* _gpu_processes(): [] on FileNotFoundError, [] on any other exception, []
\* on empty output, rows that do not parse are skipped
_gpu_processes(outcome) ==
    IF outcome = "rows" THEN <<GpuRow>> ELSE <<>>

\* the answer of the poll number polls + 1: busyPolls polls show a process,
\* the poll after them ends as quiet says
SmiAnswer(polls, busyPolls, quiet) == IF polls < busyPolls THEN "rows" ELSE quiet

\* _wait_for_gpu_free whose loop runs while time.time() <= deadline
RECURSIVE GateLoopInclusive(_, _, _, _, _, _)
GateLoopInclusive(elapsed, polls, timeout, poll_interval, busyPolls, quiet) ==
    IF elapsed <= timeout
    THEN IF _gpu_processes(SmiAnswer(polls, busyPolls, quiet)) = <<>>
         THEN [result |-> TRUE, polls |-> polls + 1, elapsed |-> elapsed]
         ELSE GateLoopInclusive(elapsed + poll_interval, polls + 1, timeout, poll_interval,
                                busyPolls, quiet)
    ELSE [result |-> FALSE, polls |-> polls, elapsed |-> elapsed]

\* _wait_for_gpu_free: the loop "while time.time() < deadline", where every
\* poll that finds a process costs poll_interval; the value is the result,
\* the number of polls made and the time spent
RECURSIVE GateLoop(_, _, _, _, _, _)
GateLoop(elapsed, polls, timeout, poll_interval, busyPolls, quiet) ==
    IF elapsed < timeout
    THEN IF _gpu_processes(SmiAnswer(polls, busyPolls, quiet)) = <<>>
         THEN [result |-> TRUE, polls |-> polls + 1, elapsed |-> elapsed]
         ELSE GateLoop(elapsed + poll_interval, polls + 1, timeout, poll_interval,
                       busyPolls, quiet)
    ELSE [result |-> FALSE, polls |-> polls, elapsed |-> elapsed]

\* a gate that reports the GPU free whatever the polls found
GateAlwaysFree(timeout, poll_interval, busyPolls, quiet) == TRUE

_wait_for_gpu_free(timeout, poll_interval, busyPolls, quiet) ==
    GateLoop(0, 0, timeout, poll_interval, busyPolls, quiet).result

\* the polls that fit into the window of the gate
PollsInWindow(timeout, poll_interval) ==
    (timeout + poll_interval - 1) \div poll_interval

\* _wait_for_gpu_free(timeout=30) for every run of polls the launcher can meet
GateOfLauncher ==
    [busyPolls \in 0..MaxBusyPolls, quiet \in QuietOutcomes |->
        _wait_for_gpu_free(GpuGateTimeout, GpuPollInterval, busyPolls, quiet)]

\* gpu_free = _wait_for_gpu_free(timeout=30); if not gpu_free: refuse
Gate(t) ==
    /\ pc[t] = "gate"
    /\ \E busyPolls \in 0..MaxBusyPolls, quiet \in QuietOutcomes :
         LET gpu_free == GateOfLauncher[busyPolls, quiet]
             newloc == [loc[t] EXCEPT !.gpu_free = gpu_free,
                          !.all_busy = busyPolls >= PollsInWindow(GpuGateTimeout, GpuPollInterval)]
         IN  IF gpu_free
             THEN /\ loc' = [loc EXCEPT ![t] = newloc]
                  /\ pc' = [pc EXCEPT ![t] = "validate"]
                  /\ UNCHANGED <<error_log, last_start_error>>
             ELSE /\ _write_last_error_log(_read_stderr_tail)
                  /\ last_start_error' = _read_stderr_tail
                  /\ ReturnFrom(t, FALSE, newloc)
    /\ UNCHANGED <<process_lock, llama_process, alive, current_model, last_used_config,
                   restart_fail_count, backoff, cfgFiles, gate, req, resp, stderr_log, detected>>

\* Validate that hands a refused configuration to the fallback chain
ValidateFallsBack(t) ==
    /\ pc[t] = "validate"
    /\ IF GpuLayersOf(loc[t].config) <= 0
       THEN /\ _write_last_error_log(GpuLayersMsg)
            /\ last_start_error' = GpuLayersMsg
            /\ pc' = [pc EXCEPT ![t] = "call_chain"]
            /\ UNCHANGED loc
       ELSE /\ pc' = [pc EXCEPT ![t] = "spawn"]
            /\ UNCHANGED <<error_log, last_start_error, loc>>
    /\ UNCHANGED <<process_lock, llama_process, alive, current_model, last_used_config,
                   restart_fail_count, backoff, cfgFiles, gate, req, resp, stderr_log, detected>>

\* Validate with "< 0" in place of "<= 0"
ValidateNegativeOnly(t) ==
    /\ pc[t] = "validate"
    /\ IF GpuLayersOf(loc[t].config) < 0
       THEN /\ _write_last_error_log(GpuLayersMsg)
            /\ last_start_error' = GpuLayersMsg
            /\ ReturnFrom(t, FALSE, loc[t])
       ELSE /\ pc' = [pc EXCEPT ![t] = "spawn"]
            /\ UNCHANGED <<error_log, last_start_error, loc>>
    /\ UNCHANGED <<process_lock, llama_process, alive, current_model, last_used_config,
                   restart_fail_count, backoff, cfgFiles, gate, req, resp, stderr_log, detected>>

\* if int(config.get('gpuLayers', 0)) <= 0: refuse
Validate(t) ==
    /\ pc[t] = "validate"
    /\ IF GpuLayersOf(loc[t].config) <= 0
       THEN /\ _write_last_error_log(GpuLayersMsg)
            /\ last_start_error' = GpuLayersMsg
            /\ ReturnFrom(t, FALSE, loc[t])
       ELSE /\ pc' = [pc EXCEPT ![t] = "spawn"]
            /\ UNCHANGED <<error_log, last_start_error, loc>>
    /\ UNCHANGED <<process_lock, llama_process, alive, current_model, last_used_config,
                   restart_fail_count, backoff, cfgFiles, gate, req, resp, stderr_log, detected>>

\* Spawn that stores the configuration path in current_model
SpawnStoresConfigPath(t) ==
    /\ pc[t] = "spawn"
    /\ FreePids # {}
    /\ llama_process' = NewPid
    /\ alive' = alive \cup {NewPid}
    /\ stderr_log' = TRUE
    /\ current_model' = loc[t].cfg
    /\ last_used_config' = loc[t].cfg
    /\ loc' = [loc EXCEPT ![t].ev = Append(@, "spawn"), ![t].logs = TRUE]
    /\ pc' = [pc EXCEPT ![t] = "poll"]
    /\ UNCHANGED <<process_lock, last_start_error, error_log, restart_fail_count, backoff,
                   cfgFiles, gate, req, resp, detected>>

\* open the log files, subprocess.Popen, set current_model and last_used_config
Spawn(t) ==
    /\ pc[t] = "spawn"
    /\ FreePids # {}
    /\ llama_process' = NewPid
    /\ alive' = alive \cup {NewPid}
    /\ stderr_log' = TRUE
    /\ current_model' = loc[t].config.modelPath
    /\ last_used_config' = loc[t].cfg
    /\ loc' = [loc EXCEPT ![t].ev = Append(@, "spawn"), ![t].logs = TRUE]
    /\ pc' = [pc EXCEPT ![t] = "poll"]
    /\ UNCHANGED <<process_lock, last_start_error, error_log, restart_fail_count, backoff,
                   cfgFiles, gate, req, resp, detected>>

\* the iterations of the readiness loop at which the process is first seen
\* exited that are considered: at once, after one health request, at the last
\* iteration, or never (ReadyPolls)
ExitPolls == {0, 1, ReadyPolls - 1, ReadyPolls}

\* the answers of the health endpoint other than HTTP 200: another status, or
\* no connection (requests.get raises)
NotReadyAnswers == {"503", "refused"}

\* ReadyLoop that takes any HTTP answer for readiness, whatever its status
RECURSIVE ReadyLoopAnyStatus(_, _, _, _)
ReadyLoopAnyStatus(i, readyAt, exitAt, other) ==
    IF i >= ReadyPolls
    THEN [ready |-> FALSE, polls |-> i, seen_exit |-> FALSE,
          last |-> IF i = 0 THEN "none" ELSE other]
    ELSE IF exitAt <= i
    THEN [ready |-> FALSE, polls |-> i, seen_exit |-> TRUE,
          last |-> IF i = 0 THEN "none" ELSE other]
    ELSE IF readyAt <= i
    THEN [ready |-> TRUE, polls |-> i + 1, seen_exit |-> FALSE, last |-> "200"]
    ELSE IF other # "refused"
    THEN [ready |-> TRUE, polls |-> i + 1, seen_exit |-> FALSE, last |-> other]
    ELSE ReadyLoopAnyStatus(i + 1, readyAt, exitAt, other)

\* the loop "for _ in range(12)" from iteration i on: the process is seen
\* exited from iteration exitAt on, the health endpoint answers 200 from
\* iteration readyAt on and with other before
RECURSIVE ReadyLoop(_, _, _, _)
ReadyLoop(i, readyAt, exitAt, other) ==
    IF i >= ReadyPolls
    THEN [ready |-> FALSE, polls |-> i, seen_exit |-> FALSE,
          last |-> IF i = 0 THEN "none" ELSE other]
    ELSE IF exitAt <= i
    THEN \* if llama_process.poll() is not None: break
         [ready |-> FALSE, polls |-> i, seen_exit |-> TRUE,
          last |-> IF i = 0 THEN "none" ELSE other]
    ELSE IF readyAt <= i
    THEN \* resp.status_code == 200: ready = True; break
         [ready |-> TRUE, polls |-> i + 1, seen_exit |-> FALSE, last |-> "200"]
    ELSE \* another status or an exception: time.sleep(1), next iteration
         ReadyLoop(i + 1, readyAt, exitAt, other)

\* ReadyPoll whose success path leaves restart_fail_count as it is
ReadyPollNoReset(t) ==
    /\ pc[t] = "poll"
    /\ \E readyAt \in {0, ReadyPolls - 1, ReadyPolls}, exitAt \in ExitPolls :
         /\ llama_process \notin alive => exitAt = 0
         /\ IF ReadyLoop(0, readyAt, exitAt, "refused").ready
            THEN /\ last_start_error' = None
                 /\ detected' = 0
                 /\ ReturnFrom(t, TRUE, loc[t])
                 /\ UNCHANGED alive
            ELSE /\ pc' = [pc EXCEPT ![t] = "primary_failed"]
                 /\ UNCHANGED loc
                 /\ alive' = IF exitAt < ReadyPolls THEN alive \ {llama_process} ELSE alive
                 /\ UNCHANGED <<last_start_error, detected>>
    /\ UNCHANGED <<process_lock, llama_process, current_model, last_used_config, error_log,
                   restart_fail_count, backoff, cfgFiles, gate, req, resp, stderr_log>>

\* ReadyPoll whose success path leaves last_start_error as it is
ReadyPollKeepsError(t) ==
    /\ pc[t] = "poll"
    /\ \E readyAt \in {0, ReadyPolls - 1, ReadyPolls}, exitAt \in ExitPolls :
         /\ llama_process \notin alive => exitAt = 0
         /\ IF ReadyLoop(0, readyAt, exitAt, "refused").ready
            THEN /\ restart_fail_count' = 0
                 /\ detected' = 0
                 /\ ReturnFrom(t, TRUE, loc[t])
                 /\ UNCHANGED alive
            ELSE /\ pc' = [pc EXCEPT ![t] = "primary_failed"]
                 /\ UNCHANGED loc
                 /\ alive' = IF exitAt < ReadyPolls THEN alive \ {llama_process} ELSE alive
                 /\ UNCHANGED <<restart_fail_count, detected>>
    /\ UNCHANGED <<process_lock, llama_process, current_model, last_used_config, error_log,
                   last_start_error, backoff, cfgFiles, gate, req, resp, stderr_log>>

\* readiness polling of the primary launch, and "if ready: ... return True"
ReadyPoll(t) ==
    /\ pc[t] = "poll"
    /\ \E readyAt \in {0, ReadyPolls - 1, ReadyPolls}, exitAt \in ExitPolls,
          other \in NotReadyAnswers :
         /\ llama_process \notin alive => exitAt = 0
         /\ LET polling == ReadyLoop(0, readyAt, exitAt, other)
                newloc == [loc[t] EXCEPT !.polling = polling]
            IN  IF polling.ready
                THEN /\ last_start_error' = None
                     /\ restart_fail_count' = 0
                     /\ detected' = 0
                     /\ ReturnFrom(t, TRUE, newloc)
                     /\ UNCHANGED alive
                ELSE /\ pc' = [pc EXCEPT ![t] = "primary_failed"]
                     /\ loc' = [loc EXCEPT ![t] = newloc]
                     /\ alive' = IF exitAt < ReadyPolls THEN alive \ {llama_process} ELSE alive
                     /\ UNCHANGED <<last_start_error, restart_fail_count, detected>>
    /\ UNCHANGED <<process_lock, llama_process, current_model, last_used_config, error_log,
                   backoff, cfgFiles, gate, req, resp, stderr_log>>

\* not ready: stderr_tail = _read_stderr_tail(), stored in last_start_error
\* and written to the diagnostics file
PrimaryFailed(t) ==
    /\ pc[t] = "primary_failed"
    /\ last_start_error' = _read_stderr_tail
    /\ _write_last_error_log(_read_stderr_tail)
    /\ pc' = [pc EXCEPT ![t] = "lingering"]
    /\ loc' = [loc EXCEPT ![t].polling = NoPolling]   \* not read after "if ready"
    /\ UNCHANGED <<process_lock, llama_process, alive, current_model, last_used_config,
                   restart_fail_count, backoff, cfgFiles, gate, req, resp, stderr_log, detected>>

\* StopLingering that leaves a process that is still alive running
StopLingeringNoTerminate(t) ==
    /\ pc[t] = "lingering"
    /\ pc' = [pc EXCEPT ![t] = "call_chain"]
    /\ UNCHANGED <<process_lock, llama_process, alive, current_model, last_used_config,
                   last_start_error, error_log, restart_fail_count, backoff, cfgFiles, gate,
                   loc, req, resp, stderr_log, detected>>

\* if llama_process and llama_process.poll() is None: terminate(), then
\* wait(timeout=5) and, when the wait times out, kill()
StopLingering(t) ==
    /\ pc[t] = "lingering"
    /\ alive' = alive \ {llama_process}
    /\ pc' = [pc EXCEPT ![t] = "call_chain"]
    /\ UNCHANGED <<process_lock, llama_process, current_model, last_used_config,
                   last_start_error, error_log, restart_fail_count, backoff, cfgFiles, gate,
                   loc, req, resp, stderr_log, detected>>

\* CallFallbacks that returns False without the call of the fallback chain
CallFallbacksNoChain(t) ==
    /\ pc[t] = "call_chain"
    /\ ReturnFrom(t, FALSE, loc[t])
    /\ UNCHANGED <<llama_process, alive, current_model, last_used_config, last_start_error,
                   error_log, restart_fail_count, backoff, cfgFiles, gate, req, resp, stderr_log,
                   detected>>

\* ok = _attempt_start_with_fallbacks(cfg_path, model_override=model_path)
CallFallbacks(t) ==
    /\ pc[t] = "call_chain"
    /\ loc' = [loc EXCEPT ![t].variant = 1,
                          ![t].calls = @ + 1,
                          ![t].chain = [config_path |-> loc[t].cfg,
                                        model_override |-> loc[t].override]]
    /\ pc' = [pc EXCEPT ![t] = "fallback"]
    /\ UNCHANGED <<process_lock, llama_process, alive, current_model, last_used_config,
                   last_start_error, error_log, restart_fail_count, backoff, cfgFiles, gate,
                   req, resp, stderr_log, detected>>

\* if ok: return True; else: return False
FallbacksReturn(t) ==
    /\ pc[t] = "chain_done"
    /\ ReturnFrom(t, loc[t].ok, loc[t])
    /\ UNCHANGED <<llama_process, alive, current_model, last_used_config, last_start_error,
                   error_log, restart_fail_count, backoff, cfgFiles, gate, req, resp, stderr_log,
                   detected>>

\* ------------------------------------------- _attempt_start_with_fallbacks
\* The chain of section 4.3: the variants in declared order, each spawned and
\* polled like the primary launch, the first ready one becomes the backend.
FallbackSpawn(t) ==
    /\ pc[t] = "fallback"
    /\ loc[t].variant <= Len(FallbackVariants)
    /\ FreePids # {}
    /\ alive' = alive \cup {NewPid}
    /\ stderr_log' = TRUE
    /\ loc' = [loc EXCEPT ![t].proc = NewPid, ![t].ev = Append(@, "spawn"),
                          ![t].tried = Append(@, FallbackVariants[loc[t].variant])]
    /\ pc' = [pc EXCEPT ![t] = "fb_poll"]
    /\ UNCHANGED <<process_lock, llama_process, current_model, last_used_config,
                   last_start_error, error_log, restart_fail_count, backoff, cfgFiles, gate,
                   req, resp, detected>>

\* the variant reaches readiness and becomes the backend, or it fails: its
\* diagnostic is recorded, it is stopped and the next variant is due
FallbackPoll(t) ==
    /\ pc[t] = "fb_poll"
    /\ \E ready \in BOOLEAN :
         IF ready /\ loc[t].proc \in alive
         THEN /\ llama_process' = loc[t].proc
              /\ current_model' = loc[t].config.modelPath
              /\ last_used_config' = loc[t].chain.config_path
              /\ last_start_error' = None
              /\ restart_fail_count' = 0
              /\ detected' = 0
              /\ loc' = [loc EXCEPT ![t].proc = NoProc, ![t].ok = TRUE]
              /\ pc' = [pc EXCEPT ![t] = "chain_done"]
              /\ UNCHANGED <<alive, error_log>>
         ELSE /\ last_start_error' = _read_stderr_tail
              /\ _write_last_error_log(_read_stderr_tail)
              /\ alive' = alive \ {loc[t].proc}
              /\ loc' = [loc EXCEPT ![t].proc = NoProc, ![t].variant = @ + 1]
              /\ pc' = [pc EXCEPT ![t] = "fallback"]
              /\ UNCHANGED <<llama_process, current_model, last_used_config,
                             restart_fail_count, detected>>
    /\ UNCHANGED <<process_lock, backoff, cfgFiles, gate, req, resp, stderr_log>>

\* every variant failed: the chain returns False
FallbackExhausted(t) ==
    /\ pc[t] = "fallback"
    /\ loc[t].variant > Len(FallbackVariants)
    /\ loc' = [loc EXCEPT ![t].ok = FALSE]
    /\ pc' = [pc EXCEPT ![t] = "chain_done"]
    /\ UNCHANGED <<process_lock, llama_process, alive, current_model, last_used_config, last_start_error,
                   error_log, restart_fail_count, backoff, cfgFiles, gate, req, resp, stderr_log, detected>>

\* ---------------------------------------------------- monitor_llama_process
\* MonitorCheck with time.sleep(backoff) inside "with process_lock"
MonitorCheckSleepsLocked ==
    /\ pc[Monitor] = "mon_check"
    /\ process_lock = NoThread
    /\ IF llama_process = NoProc
       THEN UNCHANGED <<pc, process_lock, restart_fail_count, backoff, detected>>
       ELSE IF llama_process \notin alive
       THEN /\ restart_fail_count' = BumpFailCount(restart_fail_count)
            /\ backoff' = BackoffOf(BumpFailCount(restart_fail_count))
            /\ detected' = detected + 1
            /\ process_lock' = Monitor
            /\ pc' = [pc EXCEPT ![Monitor] = "mon_backoff"]
       ELSE /\ pc' = [pc EXCEPT ![Monitor] = IF backoff = Unbound THEN "dead"
                                            ELSE "mon_backoff"]
            /\ UNCHANGED <<process_lock, restart_fail_count, backoff, detected>>
    /\ UNCHANGED <<llama_process, alive, current_model, last_used_config,
                   last_start_error, error_log, cfgFiles, gate, loc, req, resp, stderr_log>>

\* time.sleep(3); with process_lock: the liveness check; then, outside the
\* lock, time.sleep(backoff) begins: a backoff that was never assigned raises
\* UnboundLocalError, which nothing catches
MonitorCheck ==
    /\ pc[Monitor] = "mon_check"
    /\ process_lock = NoThread
    /\ IF llama_process = NoProc
       THEN \* continue
            UNCHANGED <<pc, restart_fail_count, backoff, detected>>
       ELSE IF llama_process \notin alive
       THEN /\ restart_fail_count' = BumpFailCount(restart_fail_count)
            /\ backoff' = BackoffOf(BumpFailCount(restart_fail_count))
            /\ detected' = detected + 1
            /\ pc' = [pc EXCEPT ![Monitor] = "mon_backoff"]
       ELSE /\ pc' = [pc EXCEPT ![Monitor] = IF backoff = Unbound THEN "dead"
                                            ELSE "mon_backoff"]
            /\ UNCHANGED <<restart_fail_count, backoff, detected>>
    /\ UNCHANGED <<process_lock, llama_process, alive, current_model, last_used_config,
                   last_start_error, error_log, cfgFiles, gate, loc, req, resp, stderr_log>>

\* the sleep is over; with process_lock: if last_used_config:
\* start_llama_server(last_used_config)
MonitorRelock ==
    /\ pc[Monitor] = "mon_backoff"
    /\ process_lock = NoThread
    /\ IF last_used_config # None
       THEN /\ process_lock' = Monitor
            /\ CallStart(Monitor, last_used_config)
       ELSE /\ pc' = [pc EXCEPT ![Monitor] = "mon_check"]
            /\ UNCHANGED <<process_lock, loc>>
    /\ UNCHANGED <<llama_process, alive, current_model, last_used_config, last_start_error,
                   error_log, restart_fail_count, backoff, cfgFiles, gate, req, resp, stderr_log, detected>>

\* ----------------------------------------------------------------- completions
\* a request arrives: target_config and target_model are looked up
Arrive(r) ==
    /\ pc[r] = "idle"
    /\ pc[Main] = "serving"
    /\ \E m \in ReqModels :
          req' = [req EXCEPT ![r] = [path |-> "/v1/completions", model |-> m,
                                     target_config |-> TargetConfig(m),
                                     target_model |-> load_config(TargetConfig(m)).modelPath,
                                     switch |-> "none", posted |-> <<>>]]
    /\ pc' = [pc EXCEPT ![r] = "compare"]
    /\ UNCHANGED <<process_lock, llama_process, alive, current_model, last_used_config,
                   last_start_error, error_log, restart_fail_count, backoff, cfgFiles, gate,
                   loc, resp, stderr_log, detected>>

\* Compare that takes process_lock before it forwards to the active model
CompareLocksForward(r) ==
    /\ pc[r] = "compare"
    /\ IF current_model # req[r].target_model
       THEN /\ CallStart(r, req[r].target_config)
            /\ req' = [req EXCEPT ![r].switch = "switch"]
            /\ UNCHANGED process_lock
       ELSE /\ process_lock = NoThread
            /\ process_lock' = r
            /\ pc' = [pc EXCEPT ![r] = "alive_check"]
            /\ req' = [req EXCEPT ![r].switch = "equal"]
            /\ UNCHANGED loc
    /\ UNCHANGED <<llama_process, alive, current_model, last_used_config,
                   last_start_error, error_log, restart_fail_count, backoff, cfgFiles, gate,
                   resp, stderr_log, detected>>

\* Compare that starts the backend whatever the comparison says
CompareAlwaysStart(r) ==
    /\ pc[r] = "compare"
    /\ CallStart(r, req[r].target_config)
    /\ req' = [req EXCEPT ![r].switch = IF current_model # req[r].target_model
                                        THEN "switch" ELSE "equal"]
    /\ UNCHANGED <<process_lock, llama_process, alive, current_model, last_used_config,
                   last_start_error, error_log, restart_fail_count, backoff, cfgFiles, gate,
                   resp, stderr_log, detected>>

\* if current_model != target_model: ok = start_llama_server(target_config)
Compare(r) ==
    /\ pc[r] = "compare"
    /\ IF current_model # req[r].target_model
       THEN /\ CallStart(r, req[r].target_config)
            /\ req' = [req EXCEPT ![r].switch = "switch"]
       ELSE /\ pc' = [pc EXCEPT ![r] = "alive_check"]
            /\ req' = [req EXCEPT ![r].switch = "equal"]
            /\ UNCHANGED loc
    /\ UNCHANGED <<process_lock, llama_process, alive, current_model, last_used_config,
                   last_start_error, error_log, restart_fail_count, backoff, cfgFiles, gate,
                   resp, stderr_log, detected>>

\* AliveCheck that starts the backend again when it finds none running
AliveCheckRestarts(r) ==
    /\ pc[r] = "alive_check"
    /\ IF ~ProcessRunning
       THEN CallStart(r, req[r].target_config)
       ELSE /\ pc' = [pc EXCEPT ![r] = "forward"]
            /\ UNCHANGED loc
    /\ UNCHANGED <<process_lock, llama_process, alive, current_model, last_used_config,
                   last_start_error, error_log, restart_fail_count, backoff, cfgFiles, gate,
                   req, resp, stderr_log, detected>>

\* if not llama_process or llama_process.poll() is not None: 503
AliveCheck(r) ==
    /\ pc[r] = "alive_check"
    /\ IF ~ProcessRunning
       THEN /\ resp' = [resp EXCEPT ![r] = ServerUnavailable]
            /\ pc' = [pc EXCEPT ![r] = "done"]
       ELSE /\ pc' = [pc EXCEPT ![r] = "forward"]
            /\ UNCHANGED resp
    /\ UNCHANGED <<process_lock, llama_process, alive, current_model, last_used_config,
                   last_start_error, error_log, restart_fail_count, backoff, cfgFiles, gate,
                   loc, req, stderr_log, detected>>

\* the url and the data dict are built and the function ends: nothing is
\* posted to the backend and the handler returns None, which is answered as
\* 200 with the body null
Forward(r) ==
    /\ pc[r] = "forward"
    /\ resp' = [resp EXCEPT ![r] = [code |-> 200, body |-> Null]]
    /\ pc' = [pc EXCEPT ![r] = "done"]
    /\ UNCHANGED <<process_lock, llama_process, alive, current_model, last_used_config,
                   last_start_error, error_log, restart_fail_count, backoff, cfgFiles, gate,
                   loc, req, stderr_log, detected>>

\* the answer has gone to the client, the worker thread is free again
Finish(r) ==
    /\ pc[r] = "done"
    /\ pc' = [pc EXCEPT ![r] = "idle"]
    /\ req' = [req EXCEPT ![r] = NoReq]
    /\ resp' = [resp EXCEPT ![r] = NoResp]
    /\ UNCHANGED <<process_lock, llama_process, alive, current_model, last_used_config,
                   last_start_error, error_log, restart_fail_count, backoff, cfgFiles, gate,
                   loc, stderr_log, detected>>

\* ---------------------------------------------------------------------- health
\* health that looks at the handle only, not at poll()
healthHandleOnly(r) ==
    /\ pc[r] = "idle"
    /\ pc[Main] = "serving"
    /\ req' = [req EXCEPT ![r] = [NoReq EXCEPT !.path = "/health"]]
    /\ pc' = [pc EXCEPT ![r] = IF llama_process # NoProc THEN "health_ok" ELSE "health_error"]
    /\ UNCHANGED <<process_lock, llama_process, alive, current_model, last_used_config,
                   last_start_error, error_log, restart_fail_count, backoff, cfgFiles, gate,
                   loc, resp, stderr_log, detected>>

\* GET /health: if llama_process and llama_process.poll() is None
health(r) ==
    /\ pc[r] = "idle"
    /\ pc[Main] = "serving"
    /\ req' = [req EXCEPT ![r] = [NoReq EXCEPT !.path = "/health"]]
    /\ pc' = [pc EXCEPT ![r] = IF ProcessRunning THEN "health_ok" ELSE "health_error"]
    /\ UNCHANGED <<process_lock, llama_process, alive, current_model, last_used_config,
                   last_start_error, error_log, restart_fail_count, backoff, cfgFiles, gate,
                   loc, resp, stderr_log, detected>>

\* return {"status": ..., "model_path": current_model}
healthReturn(r) ==
    /\ pc[r] \in {"health_ok", "health_error"}
    /\ resp' = [resp EXCEPT ![r] =
                  [code |-> 200,
                   body |-> [status |-> IF pc[r] = "health_ok" THEN "ok" ELSE "error",
                             model_path |-> current_model]]]
    /\ pc' = [pc EXCEPT ![r] = "done"]
    /\ UNCHANGED <<process_lock, llama_process, alive, current_model, last_used_config,
                   last_start_error, error_log, restart_fail_count, backoff, cfgFiles, gate,
                   loc, req, stderr_log, detected>>

\* -------------------------------------------------------------------- lifespan
\* start-up: start_llama_server(QWEN_CONFIG)
LifespanStart ==
    /\ pc[Main] = "lifespan_start"
    /\ CallStart(Main, QWEN_CONFIG)
    /\ UNCHANGED <<process_lock, llama_process, alive, current_model, last_used_config,
                   last_start_error, error_log, restart_fail_count, backoff, cfgFiles, gate,
                   req, resp, stderr_log, detected>>

\* shutdown: if llama_process and llama_process.poll() is None: terminate(),
\* wait(timeout=10) and, when the wait times out, kill()
Shutdown ==
    /\ pc[Main] = "serving"
    /\ alive' = IF ProcessRunning THEN alive \ {llama_process} ELSE alive
    /\ pc' = [pc EXCEPT ![Main] = "stopped"]
    /\ UNCHANGED <<process_lock, llama_process, current_model, last_used_config,
                   last_start_error, error_log, restart_fail_count, backoff, cfgFiles, gate,
                   loc, req, resp, stderr_log, detected>>

\* ------------------------------------------------------------- the return
\* "with process_lock" ends, the lock is released and the caller goes on with
\* the result
Return(t) ==
    /\ pc[t] = "returning"
    /\ process_lock' = NoThread
    /\ loc' = [loc EXCEPT ![t] = NoLoc]
    /\ IF t = Main
       THEN \* lifespan: the monitor thread is started, the application serves
            /\ pc' = [pc EXCEPT ![Main] = "serving", ![Monitor] = "mon_check"]
            /\ UNCHANGED resp
       ELSE IF t = Monitor
       THEN \* the outcome is logged; the outer "with process_lock" then releases
            \* a lock that is no longer held: RuntimeError, outside the try
            /\ pc' = [pc EXCEPT ![Monitor] = "dead"]
            /\ UNCHANGED resp
       ELSE \* completions: 503 if not ok, else on to the liveness check
            IF loc[t].result
            THEN /\ pc' = [pc EXCEPT ![t] = "alive_check"]
                 /\ UNCHANGED resp
            ELSE /\ pc' = [pc EXCEPT ![t] = "done"]
                 /\ resp' = [resp EXCEPT ![t] = ModelStartFailed(req[t].model)]
    /\ req' = IF t \in Reqs
              THEN [req EXCEPT ![t].switch = IF loc[t].result THEN "started" ELSE "failed"]
              ELSE req
    /\ UNCHANGED <<llama_process, alive, current_model, last_used_config, last_start_error,
                   error_log, restart_fail_count, backoff, cfgFiles, gate, stderr_log, detected>>

\* ----------------------------------------------------------------- environment
\* a backend process exits on its own
ProcessExit(p) ==
    /\ p \in alive
    /\ alive' = alive \ {p}
    /\ UNCHANGED <<pc, process_lock, llama_process, current_model, last_used_config,
                   last_start_error, error_log, restart_fail_count, backoff, cfgFiles, gate,
                   loc, req, resp, stderr_log, detected>>

Next ==
    \/ \E t \in Threads : StartAcquire(t)
    \/ \E t \in Threads : StartStopOld(t)
    \/ \E t \in Threads : Gate(t)
    \/ \E t \in Threads : Validate(t)
    \/ \E t \in Threads : Spawn(t)
    \/ \E t \in Threads : ReadyPoll(t)
    \/ \E t \in Threads : PrimaryFailed(t)
    \/ \E t \in Threads : StopLingering(t)
    \/ \E t \in Threads : CallFallbacks(t)
    \/ \E t \in Threads : FallbacksReturn(t)
    \/ \E t \in Threads : FallbackSpawn(t)
    \/ \E t \in Threads : FallbackPoll(t)
    \/ \E t \in Threads : FallbackExhausted(t)
    \/ \E t \in Threads : Return(t)
    \/ MonitorCheck
    \/ MonitorRelock
    \/ \E r \in Reqs : Arrive(r)
    \/ \E r \in Reqs : Compare(r)
    \/ \E r \in Reqs : AliveCheck(r)
    \/ \E r \in Reqs : Forward(r)
    \/ \E r \in Reqs : Finish(r)
    \/ \E r \in Reqs : health(r)
    \/ \E r \in Reqs : healthReturn(r)
    \/ LifespanStart
    \/ Shutdown
    \/ \E p \in Pids : ProcessExit(p)

Spec == Init /\ [][Next]_vars

\* the steps of a thread are taken as long as they stay possible, and a thread
\* that finds the lock free again and again gets it; requests need not arrive,
\* processes need not exit and the supervisor need not shut down
Fairness ==
    /\ \A t \in Threads :
          /\ SF_vars(StartAcquire(t))
          /\ WF_vars(StartStopOld(t) \/ Gate(t) \/ Validate(t) \/ Spawn(t) \/ ReadyPoll(t)
                      \/ PrimaryFailed(t) \/ StopLingering(t) \/ CallFallbacks(t)
                      \/ FallbackSpawn(t) \/ FallbackPoll(t) \/ FallbackExhausted(t)
                      \/ FallbacksReturn(t) \/ Return(t))
    /\ \A r \in Reqs : WF_vars(Compare(r) \/ AliveCheck(r) \/ Forward(r) \/ Finish(r)
                                \/ healthReturn(r))
    /\ SF_vars(MonitorCheck)
    /\ SF_vars(MonitorRelock)
    /\ WF_vars(LifespanStart)

FairSpec == Init /\ [][Next]_vars /\ Fairness

\* ------------------------------------- _wait_for_gpu_free called on its own
\* the calls _wait_for_gpu_free(timeout, poll_interval) and what its polls meet
GateCalls ==
    [state : {"called"}, timeout : 1..MaxGateTimeout, poll_interval : 1..MaxGateInterval,
     busyPolls : 0..MaxGateBusy, quiet : QuietOutcomes, run : {NoGate.run}]

GateInit ==
    /\ SupervisorInit
    /\ gate \in GateCalls

\* the call runs its loop and returns
GateReturn ==
    /\ gate.state = "called"
    /\ gate' = [gate EXCEPT !.state = "returned",
                            !.run = GateLoop(0, 0, gate.timeout, gate.poll_interval,
                                             gate.busyPolls, gate.quiet)]
    /\ UNCHANGED <<pc, process_lock, llama_process, alive, current_model, last_used_config,
                   last_start_error, error_log, restart_fail_count, backoff, cfgFiles,
                   loc, req, resp, stderr_log, detected>>

GateNext == GateReturn

GateSpec == GateInit /\ [][GateNext]_vars

\* ---------------------------------------------------------------- properties
\* the positions inside the body of start_llama_server (process_lock taken)
BodyPcs == {"stop_old", "gate", "validate", "spawn", "poll", "primary_failed",
            "lingering", "call_chain", "fallback", "fb_poll", "chain_done", "returning"}

Spawns(t) == Cardinality({i \in DOMAIN loc[t].ev : loc[t].ev[i] = "spawn"})

\* C1: at most one backend process spawned by the supervisor is alive at any
\* time, for every interleaving of switches, monitor steps and shutdown
OneBackendAlive == Cardinality(alive) <= 1

\* a switch has stopped the running backend and spawned its successor
OneBackendAliveWitness ==
    \E t \in Threads : /\ pc[t] = "poll"
                        /\ loc[t].ev = <<"stop", "spawn">>
                        /\ alive = {llama_process}

\* C2: once the monitor has detected the exit of the backend, with no request
\* in flight, and sleeps its backoff, its restart attempt
\* start_llama_server(last_used_config) follows and runs to completion
RestartRunsToCompletion ==
    (/\ pc[Monitor] = "mon_backoff"
     /\ pc[Main] = "serving"
     /\ \A r \in Reqs : pc[r] = "idle") ~> (pc[Monitor] = "returning")

\* C3: every thread that tries to acquire process_lock eventually acquires it:
\* a call of start_llama_server, by a request, the lifespan or the restart step
\* of the monitor, that waits for the lock enters its body
LockAlwaysAcquired ==
    \A t \in Threads : (pc[t] = "start_lock") ~> (pc[t] = "stop_old")

\* C4: the monitor thread never ends: no iteration ends it with an error
MonitorNeverEnds == pc[Monitor] # "dead"

\* C5: at no time are two executions of the body of start_llama_server in
\* progress, and a body in progress holds process_lock, so that any other
\* caller waits at the lock
LaunchesSerialized ==
    /\ Cardinality({t \in Threads : pc[t] \in BodyPcs}) <= 1
    /\ \A t \in Threads : pc[t] \in BodyPcs => process_lock = t

\* a request waits at the lock while the launch of another request is in flight
LaunchesSerializedWitness ==
    \E r1 \in Reqs, r2 \in Reqs : /\ pc[r1] = "poll"
                                  /\ pc[r2] = "start_lock"
                                  /\ req[r1].target_config # req[r2].target_config

\* C6: when every poll of the 30 s window of the gate found the GPU busy,
\* start_llama_server returns False and has spawned no process in that call
GateHonesty ==
    \A t \in Threads :
        (pc[t] \in BodyPcs /\ loc[t].all_busy) =>
            /\ pc[t] = "returning"
            /\ ~loc[t].result
            /\ Spawns(t) = 0

\* a call returns False after a window of busy polls, its old backend stopped
GateHonestyWitness ==
    \E t \in Threads : /\ pc[t] = "returning"
                        /\ loc[t].all_busy
                        /\ ~loc[t].result
                        /\ loc[t].ev = <<"stop">>

\* C7: with gpuLayers <= 0 or missing, start_llama_server spawns nothing and
\* opens no log file, at any point of the call, and returns False
ConfigRejection ==
    \A t \in Threads :
        (/\ pc[t] \in BodyPcs \ {"stop_old"}
         /\ \/ "gpuLayers" \notin DOMAIN loc[t].config
            \/ loc[t].config.gpuLayers <= 0) =>
            /\ Spawns(t) = 0
            /\ ~loc[t].logs
            /\ pc[t] \in {"gate", "validate", "returning"}
            /\ pc[t] = "returning" => ~loc[t].result

\* a configuration without gpuLayers has passed the gate and was refused
ConfigRejectionWitness ==
    \E t \in Threads : /\ pc[t] = "returning"
                        /\ "gpuLayers" \notin DOMAIN loc[t].config
                        /\ loc[t].gpu_free
                        /\ last_start_error = GpuLayersMsg

NoOpSwitch ==
    \A r \in Reqs :
        req[r].switch = "equal" =>
            /\ pc[r] \in {"alive_check", "forward", "done"}
            /\ loc[r] = NoLoc

\* such a request ended although the backend had exited: no restart by it
NoOpSwitchWitness ==
    \E r \in Reqs : /\ req[r].switch = "equal"
                     /\ pc[r] = "done"
                     /\ llama_process # NoProc
                     /\ llama_process \notin alive

\* C10: a request for 'mistral' that stops a running qwen backend and whose
\* primary launch reaches readiness has made exactly one stop followed by
\* exactly one spawn, and current_model is the modelPath of the mistral config
SwitchToMistral ==
    \A r \in Reqs :
        (/\ pc[r] = "returning"
         /\ Lower(req[r].model) = "mistral"
         /\ loc[r].prev = cfgFiles[QWEN_CONFIG].modelPath
         /\ loc[r].result
         /\ loc[r].variant = 0) =>
            /\ loc[r].ev = <<"stop", "spawn">>
            /\ current_model = cfgFiles[MISTRAL_CONFIG].modelPath

SwitchToMistralWitness ==
    \E r \in Reqs : /\ pc[r] = "returning"
                     /\ Lower(req[r].model) = "mistral"
                     /\ loc[r].prev = QwenPath
                     /\ loc[r].result
                     /\ loc[r].variant = 0
                     /\ current_model = MistralPath

\* C11: a completion request that has a live backend for its target model
\* posts its prompt and parameters once to the /completion endpoint of the
\* backend and answers with the response of the backend
CompletionRelayed ==
    \A r \in Reqs :
        (pc[r] = "done" /\ req[r].switch # "none" /\ resp[r].code # 503) =>
            /\ Len(req[r].posted) = 1
            /\ resp[r].body # Null

\* C12: current_model and last_used_config are changed only by the step of a
\* launch that reaches readiness (the step after which start_llama_server
\* returns True); every other step, so every call that returns False, leaves
\* both as they were
ModelSetOnlyWhenReady ==
    [][(current_model' # current_model \/ last_used_config' # last_used_config) =>
          \E t \in Threads : /\ pc[t] # "returning"
                              /\ pc'[t] = "returning"
                              /\ loc'[t].result]_vars

\* C13: after a primary launch that did not reach readiness the fallback
\* variants are launched in their declared order, each only after the one
\* before it failed and was stopped; the chain stops at the first variant that
\* reaches readiness (True after exactly that many attempts) and the call
\* returns False only after every variant was tried
FallbackOrder ==
    \A t \in Threads :
        LET n == Len(loc[t].tried) IN
        /\ n <= Len(FallbackVariants)
        /\ loc[t].tried = SubSeq(FallbackVariants, 1, n)
        /\ pc[t] = "fallback" => n = loc[t].variant - 1
        /\ pc[t] = "fb_poll" => n = loc[t].variant /\ alive \subseteq {loc[t].proc}
        /\ (pc[t] = "returning" /\ loc[t].result /\ loc[t].variant >= 1) => n = loc[t].variant
        /\ (pc[t] = "returning" /\ ~loc[t].result /\ Spawns(t) >= 1) =>
               loc[t].tried = FallbackVariants

\* only the third variant reached readiness: True after three attempts
FallbackOrderWitness ==
    \E t \in Threads : /\ pc[t] = "returning"
                        /\ loc[t].result
                        /\ loc[t].tried = SubSeq(FallbackVariants, 1, 3)

\* C14: a request whose switch failed ends with 503, its body names the
\* requested model, carries the captured start diagnostic and a hint, and the
\* request was not forwarded to a backend
FailedSwitchAnswer ==
    \A r \in Reqs :
        (pc[r] = "done" /\ req[r].switch = "failed") =>
            /\ resp[r].code = 503
            /\ "model" \in DOMAIN resp[r].body /\ resp[r].body.model = req[r].model
            /\ "hint" \in DOMAIN resp[r].body
            /\ \E k \in DOMAIN resp[r].body : resp[r].body[k] \in StartDiagnostics
            /\ req[r].posted = <<>>

\* C15: a request that, after the switch decision, finds no process handle or
\* an exited process ends with 503 and starts nothing: its next step is the
\* 503 answer, it does not enter start_llama_server and no process changes
NoInlineRestart ==
    [][\A r \in Reqs :
          (pc[r] = "alive_check" /\ ~ProcessRunning /\ pc'[r] # pc[r]) =>
              /\ pc'[r] = "done"
              /\ resp'[r] = ServerUnavailable
              /\ loc'[r] = NoLoc
              /\ llama_process' = llama_process
              /\ alive' = alive]_vars

\* the backend a request had just started exited before the liveness check:
\* the request got 503 and the process stays exited
NoInlineRestartWitness ==
    \E r \in Reqs : /\ pc[r] = "done"
                     /\ req[r].switch = "started"
                     /\ resp[r] = ServerUnavailable
                     /\ llama_process # NoProc
                     /\ llama_process \notin alive

\* C16: once the shutdown of the lifespan has completed, no backend process
\* spawned by the supervisor is alive, whatever the monitor thread or a
\* request was doing at that time
ShutdownStopsBackends == pc[Main] = "stopped" => alive = {}

\* C17: GET /health answers status 'ok' exactly when a process handle exists
\* and that process has not exited, 'error' otherwise, and model_path is the
\* value current_model has when the answer is built
HealthAnswer ==
    [][\A r \in Reqs :
          /\ (pc[r] = "idle" /\ pc'[r] \in {"health_ok", "health_error"}) =>
                 (pc'[r] = "health_ok" <=> (llama_process # NoProc /\ llama_process \in alive))
          /\ (pc[r] \in {"health_ok", "health_error"} /\ pc'[r] = "done") =>
                 /\ resp'[r].code = 200
                 /\ resp'[r].body.status = (IF pc[r] = "health_ok" THEN "ok" ELSE "error")
                 /\ resp'[r].body.model_path = current_model]_vars

\* /health answered 'error' with the model of a backend that had exited
HealthAnswerWitness ==
    \E r \in Reqs : /\ pc[r] = "done"
                     /\ req[r].path = "/health"
                     /\ resp[r].body = [status |-> "error", model_path |-> QwenPath]
                     /\ llama_process # NoProc

\* C18: when a launch has reached readiness and start_llama_server is about to
\* return True, last_start_error is None and restart_fail_count is 0, whatever
\* failures were recorded before
CleanAfterReady ==
    \A t \in Threads :
        (pc[t] = "returning" /\ loc[t].result) =>
            /\ last_start_error = None
            /\ restart_fail_count = 0

\* a launch reached readiness after a failed start had left its diagnostic in
\* the diagnostics file and the monitor had counted a crash
CleanAfterReadyWitness ==
    \E t \in Threads : /\ pc[t] = "returning"
                        /\ loc[t].result
                        /\ loc[t].variant = 0
                        /\ error_log # None
                        /\ backoff # Unbound

\* C19: after a primary launch that failed readiness, start_llama_server has
\* recorded the stderr tail in last_start_error and the diagnostics file
\* before it stops the primary process, has stopped that process before it
\* calls the fallback chain, calls the chain exactly once, with its own
\* config path and model override, and returns exactly the result of the chain
PrimaryFailureSequence ==
    \A t \in Threads :
        /\ pc[t] \in {"lingering", "call_chain"} =>
               /\ last_start_error = _read_stderr_tail
               /\ error_log = _read_stderr_tail
               /\ loc[t].calls = 0
        /\ pc[t] = "call_chain" => llama_process \notin alive
        /\ pc[t] \in {"fallback", "fb_poll", "chain_done"} =>
               /\ loc[t].calls = 1
               /\ loc[t].chain = [config_path |-> loc[t].cfg, model_override |-> loc[t].override]
        /\ pc[t] = "returning" =>
               /\ loc[t].calls <= 1
               /\ loc[t].calls = 1 => loc[t].result = loc[t].ok
               /\ (loc[t].calls = 0 /\ Spawns(t) >= 1) => loc[t].result

\* the launch of a request for 'mistral' failed readiness, its process is
\* stopped and the chain is about to be called
PrimaryFailureSequenceWitness ==
    \E t \in Threads : /\ pc[t] = "call_chain"
                        /\ loc[t].cfg = MISTRAL_CONFIG
                        /\ loc[t].ev = <<"stop", "spawn">>
                        /\ alive = {}

\* C20: the primary launch is reported ready only if a health request was
\* answered with HTTP 200 and the loop had not seen the process exited; the
\* loop makes at most 12 health requests, makes none after it has seen the
\* process exited, and any other answer leaves the launch not ready
ReadyOnlyOn200 ==
    \A t \in Threads :
        LET p == loc[t].polling IN
        /\ p.polls <= 12
        /\ p.ready <=> p.last = "200"
        /\ p.ready => ~p.seen_exit /\ p.polls >= 1
        /\ p.seen_exit => p.polls < 12
        /\ pc[t] = "primary_failed" => ~p.ready
        /\ (pc[t] = "returning" /\ loc[t].result /\ loc[t].calls = 0) => p.ready

\* twelve health requests were answered with another status: not ready
ReadyOnlyOn200Witness ==
    \E t \in Threads : /\ pc[t] = "primary_failed"
                        /\ loc[t].polling = [ready |-> FALSE, polls |-> 12,
                                              seen_exit |-> FALSE, last |-> "503"]

\* C21: _wait_for_gpu_free queries the GPU on entry; it returns True at the
\* first poll that finds no GPU compute process, which it does exactly when
\* that poll starts before the timeout; it returns False only with every poll
\* having found a process and the timeout elapsed; and the time it spends
\* stays below timeout + poll_interval
GateTiming ==
    gate.state = "returned" =>
        LET r == gate.run IN
        /\ r.polls >= 1
        /\ r.result <=> gate.busyPolls * gate.poll_interval < gate.timeout
        /\ r.result => /\ r.polls = gate.busyPolls + 1
                       /\ r.elapsed = gate.busyPolls * gate.poll_interval
        /\ ~r.result => /\ r.polls <= gate.busyPolls
                        /\ r.elapsed >= gate.timeout
        /\ r.elapsed < gate.timeout + gate.poll_interval

\* the gate gave up after the timeout, its last sleep reaching beyond it
GateTimingWitness ==
    /\ gate.state = "returned"
    /\ ~gate.run.result
    /\ gate.run.polls = 2
    /\ gate.run.elapsed > gate.timeout

\* C22: with nvidia-smi not installed, or its query failing otherwise,
\* _gpu_processes reports no process, so that _wait_for_gpu_free returns
\* True at its first poll without any wait
FailOpen ==
    /\ \A o \in {"not_installed", "failed"} : _gpu_processes(o) = <<>>
    /\ (/\ gate.state = "returned"
        /\ gate.busyPolls = 0
        /\ gate.quiet \in {"not_installed", "failed"}) =>
            /\ gate.run.result
            /\ gate.run.polls = 1
            /\ gate.run.elapsed = 0

\* the gate returned True at once although nvidia-smi is not installed
FailOpenWitness ==
    /\ gate.state = "returned"
    /\ gate.busyPolls = 0
    /\ gate.quiet = "not_installed"
    /\ gate.run = [result |-> TRUE, polls |-> 1, elapsed |-> 0]

\* C23: while the monitor sleeps its backoff, after it detected a crash and
\* before it attempts the restart, the monitor does not hold process_lock, and
\* a request waiting to start a backend can take the lock whenever it is free
SleepOutsideLock ==
    pc[Monitor] = "mon_backoff" =>
        /\ process_lock # Monitor
        /\ \A r \in Reqs : (pc[r] = "start_lock" /\ process_lock = NoThread) =>
                                ENABLED StartAcquire(r)

\* during the backoff sleep of the monitor a request took the lock, which was
\* free when the monitor made its check, and its launch has run to success
SleepOutsideLockWitness ==
    /\ pc[Monitor] = "mon_backoff"
    /\ \E r \in Reqs : /\ pc[r] = "returning"
                       /\ process_lock = r
                       /\ loc[r].result
                       /\ llama_process \in alive

\* C24: a completion request that found its target model active never holds
\* process_lock and never waits for it, so that several such requests are in
\* their forwarding phase together, and the next step of each of them is
\* possible whatever the other threads do and whoever holds the lock
ForwardingUnlocked ==
    \A r \in Reqs :
        req[r].switch = "equal" =>
            /\ process_lock # r
            /\ pc[r] \in {"alive_check", "forward", "done"}
            /\ pc[r] = "alive_check" => ENABLED AliveCheck(r)
            /\ pc[r] = "forward" => ENABLED Forward(r)

\* two requests for the active model are in their forwarding phase together
\* while a third thread holds the lock
ForwardingUnlockedWitness ==
    /\ \A r \in Reqs : pc[r] = "forward" /\ req[r].switch = "equal"
    /\ process_lock = Monitor

\* C25: a call of start_llama_server that the GPU gate or the gpuLayers check
\* refused returns False without having called the fallback chain or launched
\* any variant; the chain is only ever entered by a call that passed both and
\* whose own spawned process failed readiness
RejectionIsFinal ==
    \A t \in Threads :
        /\ (pc[t] = "returning" /\ (~loc[t].gpu_free \/ GpuLayersOf(loc[t].config) <= 0)) =>
               /\ ~loc[t].result
               /\ loc[t].calls = 0
               /\ loc[t].tried = <<>>
               /\ Spawns(t) = 0
        /\ (pc[t] \in BodyPcs /\ (loc[t].calls > 0 \/ pc[t] = "call_chain")) =>
               /\ loc[t].gpu_free
               /\ GpuLayersOf(loc[t].config) > 0
               /\ Spawns(t) >= 1
               /\ ~loc[t].polling.ready

\* a configuration with gpuLayers 0 was refused after the gate had found the
\* GPU free: the call returns with no chain call and no variant tried
RejectionIsFinalWitness ==
    \E t \in Threads : /\ pc[t] = "returning"
                        /\ loc[t].gpu_free
                        /\ "gpuLayers" \in DOMAIN loc[t].config
                        /\ loc[t].config.gpuLayers = 0
                        /\ loc[t].calls = 0
                        /\ loc[t].tried = <<>>

StopBeforeChecks ==
    \A t \in Threads :
        /\ pc[t] \in {"gate", "validate"} => alive = {}
        /\ (/\ pc[t] = "returning"
            /\ loc[t].prev # None
            /\ ~loc[t].gpu_free \/ GpuLayersOf(loc[t].config) <= 0) =>
               /\ ~loc[t].result
               /\ alive = {}
               /\ loc[t].ev = <<"stop">>
               /\ current_model = loc[t].prev
               /\ last_used_config \in Configs
               /\ load_config(last_used_config).modelPath = loc[t].prev

\* a switch away from qwen was refused at the gpuLayers check: the qwen
\* backend is gone, the globals still name qwen
StopBeforeChecksWitness ==
    \E t \in Threads : /\ pc[t] = "returning"
                        /\ loc[t].prev = QwenPath
                        /\ loc[t].cfg = MISTRAL_CONFIG
                        /\ last_start_error = GpuLayersMsg
                        /\ current_model = QwenPath
                        /\ last_used_config = QWEN_CONFIG
                        /\ alive = {}

\* C29: of several concurrent requests for the same model, different from
\* the active one, only the first stops and starts the backend: no request
\* stops a running backend that already serves the model the request asks for
SwitchOnce ==
    \A r \in Reqs :
        (pc[r] \in BodyPcs /\ loc[r].prev # None) => loc[r].prev # req[r].target_model

\* C30: a request at the forwarding step for target model T finds
\* current_model equal to the model path of T and the backend alive, whatever
\* other requests and the monitor do between its comparison, its liveness
\* check and the forwarding step (a backend that exits by itself with no
\* launch in progress is left aside)
ForwardSeesTarget ==
    \A r \in Reqs :
        pc[r] = "forward" =>
            /\ current_model = req[r].target_model
            /\ ProcessRunning \/ \A t \in Threads : pc[t] \notin BodyPcs

====
